---------------------------- MODULE Spec2Model ----------------------------
(***************************************************************************)
(* Model of the SQL expression calculator of src/src/engine/mod.rs.        *)
(*                                                                         *)
(* exec hands the query text to the external SQL parser, checks the shape  *)
(* of the parsed statements and passes the first projected expression to   *)
(* the recursive evaluator calc.  The parser is external: the model starts *)
(* from the parser's answer (res) and follows the code from there.         *)
(*                                                                         *)
(* f64 is modelled as a fixed-point number: F(u) stands for u / Scale,     *)
(* NaN for the not-a-number value.  Arithmetic rounds to the nearest       *)
(* representable value, as the floating-point operations do.               *)
(***************************************************************************)
EXTENDS Integers, Sequences, FiniteSets, TLC

VARIABLES res, pc, arg, result

vars == <<res, pc, arg, result>>

(***************************************************************************)
(* Bounds of the model.                                                    *)
(***************************************************************************)
\* Depth of the expression trees handed to calc.
MaxDepth == 2
\* Representable f64 values are the multiples of 1 / Scale.
Scale == 2
\* Longest argument list of a function call.
MaxArgs == 2
\* Longest projection list of a SELECT.
MaxItems == 2
\* Longest statement list the parser returns.
MaxStmts == 2

(***************************************************************************)
(* Result<T, E>, and a panic (unwrap on an Err) that unwinds the stack.    *)
(***************************************************************************)
Ok(v) == [ok |-> TRUE, v |-> v]
Err(e) == [ok |-> FALSE, e |-> e]
Abort == [panic |-> "unwrap on Err"]

is_abort(r) == "panic" \in DOMAIN r
is_ok(r) == "ok" \in DOMAIN r /\ r.ok
is_err(r) == "ok" \in DOMAIN r /\ ~r.ok
unwrap(r) == r.v
unwrap_err(r) == r.e

(***************************************************************************)
(* enum CalcResult and enum CalcError.                                     *)
(***************************************************************************)
Num(n) == [variant |-> "Num", num |-> n]
Bool(b) == [variant |-> "Bool", bool |-> b]
Str(s) == [variant |-> "Str", str |-> s]

InvalidType(msg) == [kind |-> "InvalidType", msg |-> msg]
UnsupportedOperator(msg) == [kind |-> "UnsupportedOperator", msg |-> msg]
UnsupportedFunc(msg) == [kind |-> "UnsupportedFunc", msg |-> msg]
InvalidRequestFormat(msg) == [kind |-> "InvalidRequestFormat", msg |-> msg]
Unexpected == [kind |-> "Unexpected"]

(***************************************************************************)
(* f64: F(u) is the number u / Scale.                                      *)
(***************************************************************************)
F(u) == [nan |-> FALSE, u |-> u]
NaN == [nan |-> TRUE, u |-> 0]

\* a / b rounded to the nearest integer, b > 0.
RoundDiv(a, b) == (2 * a + b) \div (2 * b)

RECURSIVE isqrt(_)
\* The integer part of the square root of n >= 0.
isqrt(n) ==
    IF n < 2 THEN n
    ELSE LET s == 2 * isqrt(n \div 4)
         IN  IF (s + 1) * (s + 1) > n THEN s ELSE s + 1

f64_add(a, b) == IF a.nan \/ b.nan THEN NaN ELSE F(a.u + b.u)
f64_sub(a, b) == IF a.nan \/ b.nan THEN NaN ELSE F(a.u - b.u)
f64_mul(a, b) == IF a.nan \/ b.nan THEN NaN ELSE F(RoundDiv(a.u * b.u, Scale))
f64_gt(a, b) == ~a.nan /\ ~b.nan /\ a.u > b.u
f64_sqrt(a) ==
    IF a.nan \/ a.u < 0 THEN NaN
    ELSE LET n == a.u * Scale
             r == isqrt(n)
         IN  F(IF n - r * r > r THEN r + 1 ELSE r)

(***************************************************************************)
(* str::parse::<f64>() on a text given as its sequence of characters.      *)
(* Covers the decimal grammar  [+-] digits [. digits]  |  [+-] . digits ;  *)
(* the exponent and the spellings of inf and nan, which parse as well, do  *)
(* not occur in the texts of the model.                                    *)
(***************************************************************************)
DigitVal ==
    ("0" :> 0) @@ ("1" :> 1) @@ ("2" :> 2) @@ ("3" :> 3) @@ ("4" :> 4) @@
    ("5" :> 5) @@ ("6" :> 6) @@ ("7" :> 7) @@ ("8" :> 8) @@ ("9" :> 9)

RECURSIVE DigitsValue(_)
DigitsValue(ds) ==
    IF ds = <<>> THEN 0
    ELSE 10 * DigitsValue(SubSeq(ds, 1, Len(ds) - 1)) + DigitVal[ds[Len(ds)]]

RECURSIVE Pow10(_)
Pow10(k) == IF k = 0 THEN 1 ELSE 10 * Pow10(k - 1)

ParseFloatError == [kind |-> "ParseFloatError"]

parse_f64(text) ==
    LET signed == text # <<>> /\ text[1] \in {"+", "-"}
        body == IF signed THEN Tail(text) ELSE text
        dots == {i \in 1..Len(body) : body[i] = "."}
        digits == SelectSeq(body, LAMBDA c : c # ".")
        frac == IF dots = {} THEN 0
                ELSE Len(body) - (CHOOSE i \in dots : TRUE)
        mag == RoundDiv(DigitsValue(digits) * Scale, Pow10(frac))
    IN  IF /\ Cardinality(dots) <= 1
           /\ digits # <<>>
           /\ \A i \in 1..Len(digits) : digits[i] \in DOMAIN DigitVal
        THEN Ok(F(IF signed /\ text[1] = "-" THEN 0 - mag ELSE mag))
        ELSE Err(ParseFloatError)

(***************************************************************************)
(* The parser's syntax tree, as far as the code looks into it.             *)
(***************************************************************************)
\* sqlparser::ast::Value
Number(text) == [kind |-> "Number", text |-> text]
SingleQuotedString(text) == [kind |-> "SingleQuotedString", text |-> text]
DoubleQuotedString(text) == [kind |-> "DoubleQuotedString", text |-> text]
Boolean(b) == [kind |-> "Boolean", bool |-> b]

\* sqlparser::ast::Expr
Value(v) == [node |-> "Value", value |-> v]
BinaryOp(left, op, right) ==
    [node |-> "BinaryOp", left |-> left, op |-> op, right |-> right]
Function(name, args) ==
    [node |-> "Function", func |-> [name |-> name, args |-> args]]
Nested(expr) == [node |-> "Nested", expr |-> expr]
Cast(expr, data_type) ==
    [node |-> "Cast", expr |-> expr, data_type |-> data_type]
Identifier(id) == [node |-> "Identifier", ident |-> id]

\* sqlparser::ast::FunctionArg
Named(name, a) == [named |-> TRUE, name |-> name, arg |-> a]
Unnamed(a) == [named |-> FALSE, arg |-> a]

\* sqlparser::ast::SelectItem, SetExpr, Statement
UnnamedExpr(expr) == [item |-> "UnnamedExpr", expr |-> expr]
ExprWithAlias(expr, alias) ==
    [item |-> "ExprWithAlias", expr |-> expr, alias |-> alias]
Wildcard == [item |-> "Wildcard"]
Select(projection) == [setexpr |-> "Select", projection |-> projection]
SetOperation == [setexpr |-> "SetOperation"]
Query(body) == [stmt |-> "Query", body |-> body]
Insert == [stmt |-> "Insert"]

\* Result<Vec<Statement>, ParserError> of Parser::parse_sql
ParserError == [kind |-> "ParserError"]

(***************************************************************************)
(* The evaluator.                                                          *)
(***************************************************************************)
RECURSIVE calc(_)
RECURSIVE calc_binary_operation(_, _, _)
RECURSIVE calc_function(_)
RECURSIVE cast(_)

\* apply with the operands of the subtraction exchanged.
apply_swapped(operator, first_val, second_val) ==
    CASE operator = "Plus" -> Ok(Num(f64_add(first_val, second_val)))
      [] operator = "Minus" -> Ok(Num(f64_sub(second_val, first_val)))
      [] operator = "Multiply" -> Ok(Num(f64_mul(first_val, second_val)))
      [] operator = "Gt" -> Ok(Bool(f64_gt(first_val, second_val)))
      [] OTHER -> Err(UnsupportedOperator("You try to use unsupported operator"))

apply(operator, first_val, second_val) ==
    CASE operator = "Plus" -> Ok(Num(f64_add(first_val, second_val)))
      [] operator = "Minus" -> Ok(Num(f64_sub(first_val, second_val)))
      [] operator = "Multiply" -> Ok(Num(f64_mul(first_val, second_val)))
      [] operator = "Gt" -> Ok(Bool(f64_gt(first_val, second_val)))
      [] OTHER -> Err(UnsupportedOperator("You try to use unsupported operator"))

\* The closure parse_num of calc_binary_operation.
parse_num(expr) ==
    LET r == calc(expr)
    IN  CASE is_abort(r) -> r
          [] is_ok(r) /\ unwrap(r).variant = "Num" -> Ok(unwrap(r).num)
          [] is_err(r) -> Err(unwrap_err(r))
          [] OTHER -> Err(InvalidType("Binary operators supported by Numbers only"))

\* calc_binary_operation surfacing the last error instead of the first.
calc_binary_operation_last_error(left, op, right) ==
    LET results == <<parse_num(left), parse_num(right)>>
        numbers == SelectSeq(results, is_ok)
        errors == SelectSeq(results, is_err)
    IN  CASE \E i \in 1..2 : is_abort(results[i]) -> Abort
          [] Len(numbers) = 2 -> apply(op, unwrap(numbers[1]), unwrap(numbers[2]))
          [] Len(numbers) # 2 /\ errors # <<>> ->
                Err(unwrap_err(errors[Len(errors)]))
          [] OTHER -> Err(Unexpected)

\* calc_binary_operation checking the operator before the operands.
calc_binary_operation_operator_first(left, op, right) ==
    LET results == <<parse_num(left), parse_num(right)>>
        numbers == SelectSeq(results, is_ok)
        errors == SelectSeq(results, is_err)
    IN  CASE \E i \in 1..2 : is_abort(results[i]) -> Abort
          [] op \notin {"Plus", "Minus", "Multiply", "Gt"} ->
                Err(UnsupportedOperator("You try to use unsupported operator"))
          [] Len(numbers) = 2 -> apply(op, unwrap(numbers[1]), unwrap(numbers[2]))
          [] Len(numbers) # 2 /\ errors # <<>> -> Err(unwrap_err(errors[1]))
          [] OTHER -> Err(Unexpected)

calc_binary_operation(left, op, right) ==
    LET results == <<parse_num(left), parse_num(right)>>
        numbers == SelectSeq(results, is_ok)
        errors == SelectSeq(results, is_err)
    IN  CASE \E i \in 1..2 : is_abort(results[i]) -> Abort
          [] Len(numbers) = 2 -> apply(op, unwrap(numbers[1]), unwrap(numbers[2]))
          [] Len(numbers) # 2 /\ errors # <<>> -> Err(unwrap_err(errors[1]))
          [] OTHER -> Err(Unexpected)

parse_primitive_value(value) ==
    CASE value.kind = "Number" ->
            LET p == parse_f64(value.text)
            IN  IF is_ok(p) THEN Ok(Num(unwrap(p))) ELSE Abort
      [] value.kind = "DoubleQuotedString" -> Ok(Str(value.text))
      [] value.kind = "SingleQuotedString" -> Ok(Str(value.text))
      [] OTHER -> Err(InvalidType("You try to use unsupported type"))

calc_function(func) ==
    IF func.name[1] = "SQRT"
    THEN IF func.args = <<>>
         THEN Err(InvalidType("SQRT must has an argument"))
         ELSE LET r == calc(Head(func.args).arg)
              IN  CASE is_abort(r) -> r
                    [] is_err(r) -> Err(unwrap_err(r))
                    [] is_ok(r) /\ unwrap(r).variant = "Num" ->
                          Ok(Num(f64_sqrt(unwrap(r).num)))
                    [] OTHER -> Err(InvalidType("SQRT supports only Number"))
    ELSE Err(UnsupportedFunc("Only SQRT func is supported"))

\* cast with the arm Err(e) => Err(e) missing: the error falls to the last arm.
cast_swallowing(expr) ==
    LET r == calc(expr)
    IN  CASE is_abort(r) -> r
          [] is_ok(r) /\ unwrap(r).variant = "Str" ->
                LET p == parse_f64(unwrap(r).str)
                IN  IF is_ok(p) THEN Ok(Num(unwrap(p)))
                    ELSE Err(InvalidType("CAST supports only Number"))
          [] OTHER -> Err(Unexpected)

cast(expr) ==
    LET r == calc(expr)
    IN  CASE is_abort(r) -> r
          [] is_ok(r) /\ unwrap(r).variant = "Str" ->
                LET p == parse_f64(unwrap(r).str)
                IN  IF is_ok(p) THEN Ok(Num(unwrap(p)))
                    ELSE Err(InvalidType("CAST supports only Number"))
          [] is_err(r) -> Err(unwrap_err(r))
          [] OTHER -> Err(Unexpected)

\* calc panicking on the node shapes it has no rule for.
calc_panicking(expr) ==
    CASE expr.node = "BinaryOp" ->
            calc_binary_operation(expr.left, expr.op, expr.right)
      [] expr.node = "Function" -> calc_function(expr.func)
      [] expr.node = "Value" -> parse_primitive_value(expr.value)
      [] expr.node = "Nested" -> calc(expr.expr)
      [] expr.node = "Cast" /\ expr.data_type = "Int" -> cast(expr.expr)
      [] OTHER -> Abort

calc(expr) ==
    CASE expr.node = "BinaryOp" ->
            calc_binary_operation(expr.left, expr.op, expr.right)
      [] expr.node = "Function" -> calc_function(expr.func)
      [] expr.node = "Value" -> parse_primitive_value(expr.value)
      [] expr.node = "Nested" -> calc(expr.expr)
      [] expr.node = "Cast" /\ expr.data_type = "Int" -> cast(expr.expr)
      [] OTHER -> Err(Unexpected)


(***************************************************************************)
(* exec, up to its call of calc: the answer it returns at once, or the     *)
(* expression it passes to calc, whose result it returns unchanged.        *)
(***************************************************************************)
Return(r) == [return |-> r]
Call(expr) == [call |-> expr]
is_call(s) == "call" \in DOMAIN s

\* exec evaluating an aliased first item as well.
exec_accepting_alias(parsed) ==
    IF is_err(parsed)
    THEN Return(Err(InvalidRequestFormat("It is not SQL, man")))
    ELSE LET ast == unwrap(parsed)
         IN  IF ast = <<>>
             THEN Return(Err(InvalidRequestFormat("It is not SQL, man")))
             ELSE CASE ast[1].stmt = "Query" /\ ast[1].body.setexpr = "Select" ->
                         LET projection == ast[1].body.projection
                         IN  IF projection = <<>>
                             THEN Return(Err(InvalidRequestFormat(
                                      "only SELECT is supported")))
                             ELSE IF Head(projection).item
                                       \in {"UnnamedExpr", "ExprWithAlias"}
                                  THEN Call(Head(projection).expr)
                                  ELSE Return(Err(InvalidRequestFormat(
                                           "only Unnamed expressions are supported")))
                    [] ast[1].stmt = "Query" /\ ast[1].body.setexpr # "Select" ->
                         Return(Err(InvalidRequestFormat("only SELECT is supported")))
                    [] OTHER ->
                         Return(Err(InvalidRequestFormat("only Queries are supported")))

\* exec taking the last projection item instead of the first.
exec_last_item(parsed) ==
    IF is_err(parsed)
    THEN Return(Err(InvalidRequestFormat("It is not SQL, man")))
    ELSE LET ast == unwrap(parsed)
         IN  IF ast = <<>>
             THEN Return(Err(InvalidRequestFormat("It is not SQL, man")))
             ELSE CASE ast[1].stmt = "Query" /\ ast[1].body.setexpr = "Select" ->
                         LET projection == ast[1].body.projection
                         IN  IF projection = <<>>
                             THEN Return(Err(InvalidRequestFormat(
                                      "only SELECT is supported")))
                             ELSE IF projection[Len(projection)].item = "UnnamedExpr"
                                  THEN Call(projection[Len(projection)].expr)
                                  ELSE Return(Err(InvalidRequestFormat(
                                           "only Unnamed expressions are supported")))
                    [] ast[1].stmt = "Query" /\ ast[1].body.setexpr # "Select" ->
                         Return(Err(InvalidRequestFormat("only SELECT is supported")))
                    [] OTHER ->
                         Return(Err(InvalidRequestFormat("only Queries are supported")))

exec(parsed) ==
    IF is_err(parsed)
    THEN Return(Err(InvalidRequestFormat("It is not SQL, man")))
    ELSE LET ast == unwrap(parsed)
         IN  IF ast = <<>>
             THEN Return(Err(InvalidRequestFormat("It is not SQL, man")))
             ELSE CASE ast[1].stmt = "Query" /\ ast[1].body.setexpr = "Select" ->
                         LET projection == ast[1].body.projection
                         IN  IF projection = <<>>
                             THEN Return(Err(InvalidRequestFormat(
                                      "only SELECT is supported")))
                             ELSE IF Head(projection).item = "UnnamedExpr"
                                  THEN Call(Head(projection).expr)
                                  ELSE Return(Err(InvalidRequestFormat(
                                           "only Unnamed expressions are supported")))
                    [] ast[1].stmt = "Query" /\ ast[1].body.setexpr # "Select" ->
                         Return(Err(InvalidRequestFormat("only SELECT is supported")))
                    [] OTHER ->
                         Return(Err(InvalidRequestFormat("only Queries are supported")))

(***************************************************************************)
(* The inputs: what the parser can answer for a query text.                *)
(***************************************************************************)
Operators == {"Plus", "Minus", "Multiply", "Gt", "Divide", "GtEq"}
DeepOperators == {"Plus", "Minus", "Gt", "Divide"}

\* Function names, as the parts of a possibly qualified name.
FuncNames ==
    {<<"SQRT">>, <<"sqrt">>, <<"Log">>, <<"SQRT", "Log">>, <<"Log", "SQRT">>}

Leaves ==
    { Value(Number(<<"4">>)),
      Value(Number(<<"1", ".", "5">>)),
      Value(SingleQuotedString(<<"4">>)),
      Value(DoubleQuotedString(<<"q", "w", "e">>)),
      Value(Boolean(FALSE)),
      Identifier("x") }

\* The operand paired with a deeper operand of a binary operation.
Sides == {Value(Number(<<"4">>)), Value(DoubleQuotedString(<<"q", "w", "e">>))}

\* An argument or projection item after the first; it fails if evaluated.
Filler == Value(Boolean(FALSE))

\* Argument lists of 1..MaxArgs arguments with first argument a.
ArgLists(a) ==
    {<<Unnamed(a)>> \o [i \in 1..k |-> Unnamed(Filler)] : k \in 0..(MaxArgs - 1)}
        \cup {<<Named("x", a)>>}

Calls(S) ==
    {Function(<<"SQRT">>, args) : args \in UNION {ArgLists(e) : e \in S}}
        \cup {Function(name, <<Unnamed(e)>>) : name \in FuncNames, e \in S}

Wraps(S) ==
    {Nested(e) : e \in S} \cup {Cast(e, "Int") : e \in S} \cup Calls(S)

Binaries(ops, L, R) == {BinaryOp(l, op, r) : l \in L, op \in ops, r \in R}

\* Trees one level deeper than those of S: every wrapper around a tree of S,
\* and a few binary operations pairing it with an operand of Sides.
Deeper(S) ==
    Wraps(S) \cup Binaries(DeepOperators, S, Sides)
             \cup Binaries(DeepOperators, Sides, S)

\* Beyond depth 2 the trees grow along three chains only.
Chains(S) ==
    {Nested(e) : e \in S}
        \cup {Function(<<"SQRT">>, <<Unnamed(e)>>) : e \in S}
        \cup {BinaryOp(e, "Plus", Value(Number(<<"4">>))) : e \in S}

RECURSIVE Level(_)
\* The expression trees of depth d exactly.
Level(d) ==
    CASE d = 0 -> Leaves
      [] d = 1 -> Wraps(Leaves) \cup Binaries(Operators, Leaves, Leaves)
                    \cup {Cast(e, "Float") : e \in Leaves}
                    \cup {Function(name, <<>>) : name \in FuncNames}
      [] d = 2 -> Deeper(Level(1))
      [] OTHER -> Chains(Level(d - 1))

\* The expression trees of depth at most d.
Exprs(d) == UNION {Level(k) : k \in 0..d}

\* Projection lists of 1..MaxItems items with first item it.
Projections(it) ==
    {<<it>> \o [i \in 1..k |-> UnnamedExpr(Filler)] : k \in 0..(MaxItems - 1)}

\* Statement lists of 1..MaxStmts statements with first statement st.
Statements(st) ==
    {<<st>> \o [i \in 1..k |-> Insert] : k \in 0..(MaxStmts - 1)}

\* The answers whose first statement is a SELECT of the expression e alone.
Selecting(e) == Ok(<<Query(Select(<<UnnamedExpr(e)>>))>>)

\* The answers that differ from Selecting(e) in what follows the first
\* projection item or the first statement.
SelectingMore(e) ==
    {Ok(ast) : ast \in UNION {Statements(Query(Select(p))) :
                                p \in Projections(UnnamedExpr(e))}}

\* The answers that never reach calc.
Shapeless ==
    {Err(ParserError), Ok(<<>>)}
    \cup {Ok(ast) : ast \in Statements(Insert) \cup Statements(Query(SetOperation))}
    \cup {Ok(<<Query(Select(<<>>))>>)}
    \cup {Ok(<<Query(Select(p))>>) :
            p \in Projections(Wildcard)
                  \cup UNION {Projections(ExprWithAlias(e, "a")) : e \in Leaves}}

(***************************************************************************)
(* The state machine: one call of exec.                                    *)
(***************************************************************************)
NoExpr == [node |-> "None"]
NoResult == [pending |-> TRUE]

Init ==
    /\ \/ res \in Shapeless
       \/ \E d \in 0..MaxDepth : \E e \in Level(d) : res = Selecting(e)
       \/ \E d \in 0..1 : \E e \in Level(d) : res \in SelectingMore(e)
    /\ pc = "exec"
    /\ arg = NoExpr
    /\ result = NoResult

\* exec from its entry to the match on the first projection item.
ExecValidate ==
    /\ pc = "exec"
    /\ LET s == exec(res)
       IN  IF is_call(s)
           THEN /\ arg' = s.call
                /\ pc' = "calc"
                /\ result' = result
           ELSE /\ result' = s.return
                /\ pc' = "done"
                /\ arg' = arg
    /\ UNCHANGED res

\* exec's call of calc on the first projection item, returned as it is.
ExecCalc ==
    /\ pc = "calc"
    /\ result' = calc(arg)
    /\ pc' = "done"
    /\ UNCHANGED <<res, arg>>

Next == ExecValidate \/ ExecCalc

Spec == Init /\ [][Next]_vars

(***************************************************************************)
(* Vocabulary of the properties.                                           *)
(***************************************************************************)
Done == pc = "done"

\* r is Ok(Num(_)); r is Ok of another variant.
IsNum(r) == is_ok(r) /\ unwrap(r).variant = "Num"
IsOtherValue(r) == is_ok(r) /\ unwrap(r).variant # "Num"

\* r is an Err of the given kind.
IsErrOf(r, kind) == is_err(r) /\ unwrap_err(r).kind = kind

\* An operand of a binary operation fails: an Error, or a Value that is no Num.
Fails(r) == is_err(r) \/ IsOtherValue(r)

\* r is what a failing operand o contributes: its own Error, or InvalidType.
IsFailureOf(r, o) == IF is_err(o) THEN r = o ELSE IsErrOf(r, "InvalidType")

\* calc was called on a binary operation, and has returned.
DoneBinaryOp == Done /\ arg.node = "BinaryOp"

\* calc was called on a call of a function named exactly SQRT, and has returned.
DoneSqrt == Done /\ arg.node = "Function" /\ arg.func.name = <<"SQRT">>

\* calc was called on CAST(expr AS INT), and has returned.
DoneCastInt == Done /\ arg.node = "Cast" /\ arg.data_type = "Int"

\* The argument of a call, named or not.
ArgExpr(a) == a.arg

(***************************************************************************)
(* C1: a binary operation whose operands both reduce to Num(l) and Num(r)  *)
(* yields Num(l+r) for +, Num(l-r) for -, Num(l*r) for *, Bool(l>r) for >  *)
(* and an UnsupportedOperator error for every other operator; the operands *)
(* are the sub-trees, whatever their shape.                                *)
(***************************************************************************)
C1_ApplyOnNumbers ==
    DoneBinaryOp =>
        LET l == calc(arg.left)
            r == calc(arg.right)
        IN  (IsNum(l) /\ IsNum(r)) =>
                LET a == unwrap(l).num
                    b == unwrap(r).num
                IN  CASE arg.op = "Plus" -> result = Ok(Num(f64_add(a, b)))
                      [] arg.op = "Minus" -> result = Ok(Num(f64_sub(a, b)))
                      [] arg.op = "Multiply" -> result = Ok(Num(f64_mul(a, b)))
                      [] arg.op = "Gt" -> result = Ok(Bool(f64_gt(a, b)))
                      [] OTHER -> IsErrOf(result, "UnsupportedOperator")

\* 4 - (an operation yielding a number other than 4) has been evaluated.
C1_Witness ==
    /\ DoneBinaryOp
    /\ arg.op = "Minus"
    /\ arg.left = Value(Number(<<"4">>))
    /\ arg.right.node = "BinaryOp"
    /\ IsNum(calc(arg.right))
    /\ calc(arg.right) # calc(arg.left)
    /\ IsNum(result)

(***************************************************************************)
(* C2: in a binary operation, when both operands fail the result is the    *)
(* left operand's failure; when exactly one fails it is that operand's     *)
(* failure; a failing left operand decides the result whatever the right   *)
(* operand does.  A Value that is no Num fails as InvalidType.             *)
(***************************************************************************)
C2_FirstFailureWins ==
    DoneBinaryOp =>
        LET l == calc(arg.left)
            r == calc(arg.right)
        IN  /\ Fails(l) => IsFailureOf(result, l)
            /\ (IsNum(l) /\ Fails(r)) => IsFailureOf(result, r)

\* Both operands failed, with different errors.
C2_Witness ==
    /\ DoneBinaryOp
    /\ is_err(calc(arg.left))
    /\ is_err(calc(arg.right))
    /\ calc(arg.left) # calc(arg.right)
    /\ result = calc(arg.left)

(***************************************************************************)
(* C3, as stated: a binary operation whose operands do not both reduce to  *)
(* Num yields an InvalidType error, also when its operator is unsupported. *)
(***************************************************************************)
C3_AsStated ==
    DoneBinaryOp =>
        (~(IsNum(calc(arg.left)) /\ IsNum(calc(arg.right)))
            => IsErrOf(result, "InvalidType"))

(***************************************************************************)
(* C3, amended: a binary operation whose operands do not both reduce to    *)
(* Num yields an error that does not depend on its operator, supported or  *)
(* not: the Error of the first failing operand if that operand evaluated   *)
(* to an Error (of whatever kind), and InvalidType if it reduced to a      *)
(* Value that is no Num.                                                   *)
(***************************************************************************)
C3_OperandErrorBeforeOperator ==
    DoneBinaryOp =>
        LET l == calc(arg.left)
            r == calc(arg.right)
        IN  ~(IsNum(l) /\ IsNum(r)) =>
                /\ is_err(result)
                /\ IsFailureOf(result, IF Fails(l) THEN l ELSE r)
                /\ \A op \in Operators :
                      calc(BinaryOp(arg.left, op, arg.right)) = result

\* An unsupported operator over a Str operand has reported InvalidType.
C3_Witness ==
    /\ DoneBinaryOp
    /\ arg.op = "Divide"
    /\ IsOtherValue(calc(arg.left))
    /\ IsNum(calc(arg.right))
    /\ IsErrOf(result, "InvalidType")

(***************************************************************************)
(* C4: CAST(expr AS INT) yields Num of the parsed number when expr reduces *)
(* to a Str that parses, and an InvalidType error when expr reduces to a   *)
(* Str that does not parse or to a Num or a Bool.                          *)
(***************************************************************************)
C4_CastToInt ==
    DoneCastInt =>
        LET r == calc(arg.expr)
        IN  /\ (is_ok(r) /\ unwrap(r).variant = "Str") =>
                  LET p == parse_f64(unwrap(r).str)
                  IN  IF is_ok(p) THEN result = Ok(Num(unwrap(p)))
                      ELSE IsErrOf(result, "InvalidType")
            /\ IsNum(r) \/ (is_ok(r) /\ unwrap(r).variant = "Bool")
                  => IsErrOf(result, "InvalidType")

(***************************************************************************)
(* C5: a call of SQRT yields a Value only when it has exactly one          *)
(* argument; without arguments it yields InvalidType; with its argument    *)
(* reducing to Num(v) it yields Num(sqrt(v)), and with its argument        *)
(* reducing to another Value it yields InvalidType.                        *)
(***************************************************************************)
C5_SqrtOneArgument ==
    DoneSqrt =>
        /\ is_ok(result) => Len(arg.func.args) = 1
        /\ arg.func.args = <<>> => IsErrOf(result, "InvalidType")
        /\ Len(arg.func.args) = 1 =>
              LET r == calc(ArgExpr(arg.func.args[1]))
              IN  /\ IsNum(r) => result = Ok(Num(f64_sqrt(unwrap(r).num)))
                  /\ IsOtherValue(r) => IsErrOf(result, "InvalidType")

(***************************************************************************)
(* C6: a function call whose name is not exactly SQRT yields an            *)
(* UnsupportedFunc error, whatever its arguments are.                      *)
(***************************************************************************)
C6_OtherFunctionsUnsupported ==
    (Done /\ arg.node = "Function" /\ arg.func.name # <<"SQRT">>)
        => IsErrOf(result, "UnsupportedFunc")

(***************************************************************************)
(* C7: when the parser's answer fails a shape check (no parse, no          *)
(* statement, first statement no query, body no plain SELECT, no           *)
(* projection item, first item no unnamed expression), exec returns        *)
(* InvalidRequestFormat and calc is not called.                            *)
(***************************************************************************)
FirstStatement == unwrap(res)[1]

ShapeFails ==
    \/ is_err(res)
    \/ unwrap(res) = <<>>
    \/ FirstStatement.stmt # "Query"
    \/ FirstStatement.body.setexpr # "Select"
    \/ FirstStatement.body.projection = <<>>
    \/ FirstStatement.body.projection[1].item # "UnnamedExpr"

C7_ShapeErrors ==
    ShapeFails =>
        /\ pc # "calc"
        /\ arg = NoExpr
        /\ Done => IsErrOf(result, "InvalidRequestFormat")

\* exec has returned for a SELECT without projection items.
C7_Witness ==
    /\ Done
    /\ res = Ok(<<Query(Select(<<>>))>>)
    /\ IsErrOf(result, "InvalidRequestFormat")
    /\ arg = NoExpr

(***************************************************************************)
(* C8: when the answer passes the shape checks, exec returns what calc     *)
(* returns for the expression of the first projection item of the first    *)
(* statement; calc is called on nothing else, so the result is that of the *)
(* input cut down to this item.                                            *)
(***************************************************************************)
FirstItem == FirstStatement.body.projection[1]

C8_FirstItemOnly ==
    ~ShapeFails =>
        /\ pc # "exec" => arg = FirstItem.expr
        /\ Done => result = calc(FirstItem.expr)

\* A SELECT of two items and a second statement: the second item, which fails
\* if evaluated, has left no trace in the result.
C8_Witness ==
    /\ Done
    /\ ~ShapeFails
    /\ Len(unwrap(res)) > 1
    /\ Len(FirstStatement.body.projection) > 1
    /\ calc(FirstStatement.body.projection[2].expr) # result
    /\ is_ok(result)

(***************************************************************************)
(* C9: for an expression tree whose numeric literals carry valid decimal   *)
(* text, the evaluation ends, and ends with one outcome: a Value (Num,     *)
(* Bool or Str) or an Error of one of the five kinds; it never aborts and  *)
(* never stops before the outcome.                                         *)
(***************************************************************************)
Digit == {"0", "1", "2", "3", "4", "5", "6", "7", "8", "9"}

ValidDecimal(text) ==
    /\ \A i \in 1..Len(text) : text[i] \in Digit \cup {"."}
    /\ \E i \in 1..Len(text) : text[i] \in Digit
    /\ Cardinality({i \in 1..Len(text) : text[i] = "."}) <= 1

RECURSIVE ValidLiterals(_)
ValidLiterals(e) ==
    CASE e.node = "Value" -> e.value.kind = "Number" => ValidDecimal(e.value.text)
      [] e.node = "BinaryOp" -> ValidLiterals(e.left) /\ ValidLiterals(e.right)
      [] e.node = "Function" ->
            \A i \in 1..Len(e.func.args) : ValidLiterals(ArgExpr(e.func.args[i]))
      [] e.node \in {"Nested", "Cast"} -> ValidLiterals(e.expr)
      [] OTHER -> TRUE

IsValue(r) ==
    /\ is_ok(r)
    /\ \/ unwrap(r).variant = "Num" /\ DOMAIN unwrap(r) = {"variant", "num"}
       \/ unwrap(r).variant = "Bool" /\ unwrap(r).bool \in BOOLEAN
       \/ unwrap(r).variant = "Str" /\ DOMAIN unwrap(r) = {"variant", "str"}

IsError(r) ==
    /\ is_err(r)
    /\ unwrap_err(r).kind \in
          {"InvalidType", "UnsupportedOperator", "UnsupportedFunc",
           "InvalidRequestFormat", "Unexpected"}

\* r is one outcome: not a panic, and a Value or an Error.
IsOutcome(r) == ~is_abort(r) /\ (IsValue(r) \/ IsError(r))

C9_OneOutcome ==
    (pc # "exec" /\ ValidLiterals(arg)) =>
        /\ pc = "calc" => IsOutcome(calc(arg))
        /\ Done => IsOutcome(result)

\* SQRT(1.5) + 4 or the like has been evaluated to a Value.
C9_Witness ==
    /\ Done
    /\ arg.node = "BinaryOp"
    /\ arg.left = Function(<<"SQRT">>, <<Unnamed(Value(Number(<<"1", ".", "5">>)))>>)
    /\ arg.right = Value(Number(<<"4">>))
    /\ ValidLiterals(arg)
    /\ IsValue(result)

(***************************************************************************)
(* C10: an Error of a sub-expression passes unchanged, kind and message,   *)
(* through an enclosing parenthesis, SQRT call and CAST to INT, and        *)
(* through an enclosing binary operation that surfaces it (the left        *)
(* operand's Error, or the right one's beside a Num); no enclosing node    *)
(* turns a child's Error into a Value.                                     *)
(***************************************************************************)
C10_ErrorsPropagate ==
    Done =>
        /\ arg.node = "Nested" /\ is_err(calc(arg.expr))
              => result = calc(arg.expr)
        /\ DoneCastInt /\ is_err(calc(arg.expr))
              => result = calc(arg.expr)
        /\ DoneSqrt /\ arg.func.args # <<>>
                    /\ is_err(calc(ArgExpr(arg.func.args[1])))
              => result = calc(ArgExpr(arg.func.args[1]))
        /\ arg.node = "BinaryOp" =>
              LET l == calc(arg.left)
                  r == calc(arg.right)
              IN  /\ is_err(l) => result = l
                  /\ IsNum(l) /\ is_err(r) => result = r
                  /\ is_err(l) \/ is_err(r) => is_err(result)

\* An UnsupportedOperator error has passed through a CAST to INT.
C10_Witness ==
    /\ DoneCastInt
    /\ IsErrOf(calc(arg.expr), "UnsupportedOperator")
    /\ result = calc(arg.expr)

=============================================================================
